---------------------------- MODULE Spec2Model ----------------------------
(***************************************************************************)
(* A model of the ChessScape manager: the British National Grid codec      *)
(* (chess/chess_manager.py: osgrid2bbox), the archive file filter          *)
(* (chess/chess_manager.py: filter_files), the tile rechunker              *)
(* (rechunk_chess.py: rechunk_chess) and the pool dispatch of the tiles    *)
(* (rechunk_chess.py: __main__).                                           *)
(*                                                                         *)
(* Python strings are TLA+ strings; a character is a string of length 1.   *)
(* A call's outcome is a record whose kind is "return" or "raise".         *)
(***************************************************************************)
EXTENDS Integers, Sequences, FiniteSets, TLC

VARIABLES
    \* osgrid2bbox: one call
    gridref,        \* the argument: [type |-> Python type, val |-> its text]
    os_cellsize,    \* the argument '10km' | '100km' | anything else
    bbox,           \* the outcome of the call, NoCall before it
    \* filter_files: one call
    listing,        \* what listdir(path) returns, in its order: [name, isfile]
    fargs,          \* [rcp, years, climate_vars, ensembles, path] as passed
    filtered,       \* the outcome of the call, NoCall before it
    \* rechunk_chess: one invocation, on the directory `listing`
    os_cell,        \* the argument: the tile code
    openable,       \* the paths xr.open_dataset finds when it is called
    out_isdir,      \* os.path.isdir(out_path)
    pc,             \* where the invocation is
    tile_bbox,      \* bbox of the tile (line 48)
    var_i,          \* the loop over climate_vars (line 54), from 1
    file_list,      \* file_list of the current variable (line 56)
    file_i,         \* the loop over file_list (line 59), from 1
    cell_data,      \* the local cell_data, Unbound until first assigned
    os_chunk,       \* the dataset os_chunk (line 50)
    raised,         \* the exception that ended the invocation, "" if none
    artifact,       \* the file written by to_netcdf, NoArtifact before
    \* __main__: pool.map(rechunk_chess_partial, os_grid)
    failing,        \* the tiles whose rechunk_chess invocation raises
    taskq,          \* the chunks of os_grid not yet taken by a worker
    workers,        \* per worker: the chunk it holds and where it is in it
    number_left,    \* MapResult._number_left: chunks without a result yet
    success,        \* MapResult._success: no chunk has failed so far
    map_state,      \* "running", then "returned" or "raised"
    outdir,         \* the names of the files in the output directory
    runs,           \* per tile, how many invocations were started
    writes,         \* per output name, how many times it was written
    setup           \* per worker: where its invocation is (lines 40-41, then
                    \* the rest) and the exception its setup raised, "" if none

gridVars    == <<gridref, os_cellsize, bbox>>
filterVars  == <<listing, fargs, filtered>>
rechunkVars == <<os_cell, openable, out_isdir, pc, tile_bbox, var_i, file_list,
                 file_i, cell_data, os_chunk, raised, artifact>>
poolVars    == <<failing, taskq, workers, number_left, success, map_state,
                 outdir, runs, writes, setup>>
vars        == <<gridVars, filterVars, rechunkVars, poolVars>>

-----------------------------------------------------------------------------
(* Python built-ins on strings *)

UpperAlpha == "ABCDEFGHIJKLMNOPQRSTUVWXYZ"
LowerAlpha == "abcdefghijklmnopqrstuvwxyz"
DigitChars == "0123456789"

CharAt(s, i) == SubSeq(s, i, i)

CharsOf(s) == {CharAt(s, i) : i \in 1..Len(s)}

IndexIn(alphabet, c) == CHOOSE k \in 1..Len(alphabet) : CharAt(alphabet, k) = c

IsUpperChar(c) == c \in CharsOf(UpperAlpha)
IsDigitChar(c) == c \in CharsOf(DigitChars)

AllDigits(s) == \A i \in 1..Len(s) : IsDigitChar(CharAt(s, i))

\* s[a:b] with Python's 0-based, end-exclusive, clamped indices (0 <= a <= b)
Slice(s, a, b) ==
    LET hi == IF b > Len(s) THEN Len(s) ELSE b
    IN  IF a >= hi THEN "" ELSE SubSeq(s, a + 1, hi)

\* str.upper() on the ASCII alphabet
RECURSIVE StrUpper(_)
StrUpper(s) ==
    IF s = "" THEN ""
    ELSE LET c == CharAt(s, 1)
             u == IF c \in CharsOf(LowerAlpha)
                  THEN CharAt(UpperAlpha, IndexIn(LowerAlpha, c))
                  ELSE c
         IN  u \o StrUpper(Tail(s))

\* int(s) of a non-empty string of decimal digits
RECURSIVE IntOfDigits(_)
IntOfDigits(s) ==
    IF s = "" THEN 0
    ELSE 10 * IntOfDigits(SubSeq(s, 1, Len(s) - 1))
         + (IndexIn(DigitChars, CharAt(s, Len(s))) - 1)

\* a ** n for n >= 0
RECURSIVE Pow(_, _)
Pow(a, n) == IF n = 0 THEN 1 ELSE a * Pow(a, n - 1)

NoCall == [kind |-> "none"]

-----------------------------------------------------------------------------
(* chess_manager.py: the Grid Reference Codec *)

\* _init_regions_and_offsets: the 13x7 table of region codes, north row first
regions ==
    << <<"HL", "HM", "HN", "HO", "HP", "JL", "JM">>,
       <<"HQ", "HR", "HS", "HT", "HU", "JQ", "JR">>,
       <<"HV", "HW", "HX", "HY", "HZ", "JV", "JW">>,
       <<"NA", "NB", "NC", "ND", "NE", "OA", "OB">>,
       <<"NF", "NG", "NH", "NJ", "NK", "OF", "OG">>,
       <<"NL", "NM", "NN", "NO", "NP", "OL", "OM">>,
       <<"NQ", "NR", "NS", "NT", "NU", "OQ", "OR">>,
       <<"NV", "NW", "NX", "NY", "NZ", "OV", "OW">>,
       <<"SA", "SB", "SC", "SD", "SE", "TA", "TB">>,
       <<"SF", "SG", "SH", "SJ", "SK", "TF", "TG">>,
       <<"SL", "SM", "SN", "SO", "SP", "TL", "TM">>,
       <<"SQ", "SR", "SS", "ST", "SU", "TQ", "TR">>,
       <<"SV", "SW", "SX", "SY", "SZ", "TV", "TW">> >>

NRows == Len(regions)
NCols == Len(regions[1])

\* 1e5, the side of a region in metres
RegionSide == 100000
\* 1e4, the side of a 10 km cell in metres
CellSide == 10000

\* list(zip(*regions[::-1])): entry [i][j] (from 1) is column i of the table,
\* row j counted from the bottom
regionsMutTransposed ==
    [i \in 1..NCols |-> [j \in 1..NRows |-> regions[j][i]]]
regionsTransposed ==
    [i \in 1..NCols |-> [j \in 1..NRows |-> regions[NRows + 1 - j][i]]]

RegionCodes == {regionsTransposed[i][j] : i \in 1..NCols, j \in 1..NRows}

\* offset_map[region] = (1e5 * i, 1e5 * j), i and j enumerated from 0; a code
\* met twice would keep its last offset (no code of the table is)
offset_map ==
    [code \in RegionCodes |->
        LET ij == CHOOSE p \in (1..NCols) \X (1..NRows) :
                    /\ regionsTransposed[p[1]][p[2]] = code
                    /\ \A q \in (1..NCols) \X (1..NRows) :
                          regionsTransposed[q[1]][q[2]] = code =>
                             \/ q[1] < p[1]
                             \/ (q[1] = p[1] /\ q[2] <= p[2])
        IN  <<RegionSide * (ij[1] - 1), RegionSide * (ij[2] - 1)>>]

Raise(e) ==
    [kind |-> "raise", exc |-> e, xmin |-> 0, xmax |-> 0, ymin |-> 0, ymax |-> 0]

Box(x0, x1, y0, y1) ==
    [kind |-> "return", exc |-> "", xmin |-> x0, xmax |-> x1, ymin |-> y0, ymax |-> y1]

\* the digit counts the '10km' pattern accepts: \d{2}|\d{4}|\d{6}|\d{8}|\d{10}
PatternDigitCounts == {2, 4, 6, 8, 10}

\* re.match(r'^([A-Z]{2})(\d{2}|\d{4}|\d{6}|\d{8}|\d{10})$', s) is not None
Match10km(s) ==
    /\ Len(s) >= 2
    /\ IsUpperChar(CharAt(s, 1)) /\ IsUpperChar(CharAt(s, 2))
    /\ (Len(s) - 2) \in PatternDigitCounts
    /\ AllDigits(Slice(s, 2, Len(s)))

\* re.match(r'^([A-Z]{2})', s) is not None
Match100km(s) ==
    /\ Len(s) >= 2
    /\ IsUpperChar(CharAt(s, 1)) /\ IsUpperChar(CharAt(s, 2))

\* the Python types whose values have an upper() method
HasUpper(type) == type \in {"str", "bytes"}

\* lines 234-243: the 10 km cell from the first 2 digits
MutBox10km(coords, x_offset, y_offset) ==
    LET half_figs    == Len(coords) \div 2
        easting      == IntOfDigits(Slice(coords, 0, half_figs))
        northing     == IntOfDigits(Slice(coords, half_figs, Len(coords)))
        scale_factor == Pow(10, 5 - half_figs)
    IN  Box(easting * scale_factor + x_offset,
            easting * scale_factor + x_offset + CellSide,
            northing * scale_factor + y_offset,
            northing * scale_factor + y_offset + CellSide)
Box10km(coords_in, x_offset, y_offset) ==
    LET coords       == Slice(coords_in, 0, 2)
        half_figs    == Len(coords) \div 2
        easting      == IntOfDigits(Slice(coords, 0, half_figs))
        northing     == IntOfDigits(Slice(coords, half_figs, Len(coords)))
        scale_factor == Pow(10, 5 - half_figs)
    IN  Box(easting * scale_factor + x_offset,
            easting * scale_factor + x_offset + CellSide,
            northing * scale_factor + y_offset,
            northing * scale_factor + y_offset + CellSide)

\* lines 244-248: the whole region
Box100km(x_offset, y_offset) ==
    Box(x_offset, x_offset + RegionSide, y_offset, y_offset + RegionSide)

\* osgrid2bbox(gridref, os_cellsize); ref is [type, val]
osgrid2bbox(ref, cellsize) ==
    IF ~HasUpper(ref.type)
    THEN \* line 204, outside every try: no upper() on the value
         Raise("AttributeError")
    ELSE
    LET up == StrUpper(ref.val)
        \* a str pattern on bytes is a TypeError, no match an AttributeError
        \* on None.groups(): both are re-raised as BNGError
        matched == /\ ref.type = "str"
                   /\ IF cellsize = "10km" THEN Match10km(up) ELSE Match100km(up)
        region  == Slice(up, 0, 2)
        coords  == Slice(up, 2, Len(up))
    IN  IF cellsize \notin {"10km", "100km"} THEN Raise("BNGError")
        ELSE IF ~matched THEN Raise("BNGError")
        ELSE IF region \notin DOMAIN offset_map THEN Raise("BNGError")
        ELSE IF cellsize = "10km"
             THEN Box10km(coords, offset_map[region][1], offset_map[region][2])
             ELSE Box100km(offset_map[region][1], offset_map[region][2])


-----------------------------------------------------------------------------
(* chess_manager.py: the Archive File Filter *)

\* f"{n:0{width}d}" for n >= 0
RECURSIVE IntToStr(_)
IntToStr(n) ==
    IF n < 10 THEN CharAt(DigitChars, n + 1)
    ELSE IntToStr(n \div 10) \o CharAt(DigitChars, (n % 10) + 1)

RECURSIVE ZeroPad(_, _)
ZeroPad(s, width) == IF Len(s) >= width THEN s ELSE ZeroPad("0" \o s, width)

\* download_chess, lines 72-93: the name of the archive file of one month
ArchiveName(rcp, ensemble, var, year, month, bias_corrected) ==
    LET ens  == ZeroPad(IntToStr(ensemble), 2)
        ym   == ZeroPad(IntToStr(year), 4) \o ZeroPad(IntToStr(month), 2)
        tail == "_" \o var \o "_uk_1km_daily_" \o ym \o "01-" \o ym \o "30.nc"
    IN  IF bias_corrected
        THEN "chess-scape_" \o rcp \o "_bias-corrected_" \o ens \o tail
        ELSE "chess-scape_" \o rcp \o "_" \o ens \o tail

\* re.split(r'_|\.|-', elem)
Delimiters == {"_", ".", "-"}

\* the tokens of s from position start on, k scanning for the next delimiter
RECURSIVE SplitFrom(_, _, _)
SplitFrom(s, start, k) ==
    IF k > Len(s) THEN <<SubSeq(s, start, Len(s))>>
    ELSE IF CharAt(s, k) \in Delimiters
         THEN <<SubSeq(s, start, k - 1)>> \o SplitFrom(s, k + 1, k + 1)
         ELSE SplitFrom(s, start, k + 1)

Split(elem) == SplitFrom(elem, 1, 1)

\* sub in s
Contains(sub, s) ==
    \E k \in 0..(Len(s) - Len(sub)) : Slice(s, k, k + Len(sub)) = sub

\* str(ensemble): an int is written in decimal, a str is itself
PyStr(x) == IF x.type = "int" THEN IntToStr(x.n) ELSE x.s

PyInt(k)  == [type |-> "int", n |-> k, s |-> ""]
PyText(t) == [type |-> "str", n |-> 0, s |-> t]

\* lines 115-120: a single value becomes a one-element list
AsList(arg) == IF arg.islist THEN arg.items ELSE <<arg.items[1]>>

One(x)   == [islist |-> FALSE, items |-> <<x>>]
Many(xs) == [islist |-> TRUE, items |-> xs]

RECURSIVE SelectSeq2(_, _)
SelectSeq2(seq, keep) ==
    IF seq = <<>> THEN <<>>
    ELSE (IF keep[1] THEN <<Head(seq)>> ELSE <<>>)
         \o SelectSeq2(Tail(seq), Tail(keep))

\* the positions of the ensemble, scenario, variable and date tokens that
\* lines 129-133 read (Python indices 5, 2, 6 and 10)
EnsembleTok == 5 + 1
ScenarioTok == 2 + 1
VariableTok == 6 + 1
DateTok     == 10 + 1

\* line 129: int(df[i][10][0:4]) raises IndexError without an 11th token and
\* ValueError when its first 4 characters are not a decimal number
YearError(tokens) ==
    IF Len(tokens) < DateTok THEN "IndexError"
    ELSE LET y == Slice(tokens[DateTok], 0, 4)
         IN  IF y = "" \/ ~AllDigits(y) THEN "ValueError" ELSE ""

\* lines 129-133, for one file and one (year, var, ensemble); yr is the
\* year read at line 129, and the conjuncts, which have no effect, are
\* taken from the last to the first
FileMatches(tokens, yr, rcp, year, var, ensemble) ==
    /\ yr = year
    /\ var = tokens[VariableTok]
    /\ Contains(rcp, tokens[ScenarioTok])
    /\ Contains(PyStr(ensemble), tokens[EnsembleTok])

FilesRaise(e)   == [kind |-> "raise", exc |-> e, files |-> <<>>]
FilesReturn(fs) == [kind |-> "return", exc |-> "", files |-> fs]

\* the list a comprehension builds, element by element
ListOf(f, n) == SubSeq(f, 1, n)

\* filter_files(rcp, years, climate_vars, ensembles, path) on a directory
\* whose listdir is dir
filter_files(rcp, years_in, climate_vars_in, ensembles_in, path, dir) ==
    LET yrs   == AsList(years_in)
        cvars == AsList(climate_vars_in)
        ens   == AsList(ensembles_in)
        allfiles == SelectSeq2([i \in 1..Len(dir) |-> dir[i].name],
                               [i \in 1..Len(dir) |-> dir[i].isfile])
        n        == Len(allfiles)
        df       == ListOf([i \in 1..n |-> Split(allfiles[i])], n)
        errors   == ListOf([i \in 1..n |-> YearError(df[i])], n)
        \* the loops reach every file when no list is empty; the first file
        \* whose year cannot be read raises
        looped   == yrs # <<>> /\ cvars # <<>> /\ ens # <<>>
        bad      == {i \in 1..n : errors[i] # ""}
        first    == CHOOSE i \in bad : \A j \in bad : i <= j
        filter_list ==
            ListOf([i \in 1..n |->
                     LET yr == IntOfDigits(Slice(df[i][DateTok], 0, 4))
                     IN  \E y \in 1..Len(yrs), v \in 1..Len(cvars), e \in 1..Len(ens) :
                            FileMatches(df[i], yr, rcp, yrs[y], cvars[v], ens[e])], n)
        filtered_files == SelectSeq2(allfiles, filter_list)
    IN  IF looped /\ bad # {} THEN FilesRaise(errors[first])
        ELSE FilesReturn(ListOf([i \in 1..Len(filtered_files) |->
                                   path \o "\\" \o filtered_files[i]],
                                Len(filtered_files)))

-----------------------------------------------------------------------------
(* rechunk_chess.py: the Tile Rechunker *)

\* line 45
climate_vars ==
    <<"tas", "tasmax", "tasmin", "pr", "rlds", "rsds", "hurs", "sfcWind">>

\* line 44: list(range(2020, 2081))
FirstYear == 2020
LastYear == 2080
years == [k \in 1..(LastYear - FirstYear + 1) |-> FirstYear + k - 1]

\* lines 116-117 and config.data_dirs
RCP == "rcp45"
ENSEMBLE == "01"
nc_path == "ceda"
out_path == "osgb/"

\* A value of an array: a number, or NaN where alignment found none
Num(x) == [nan |-> FALSE, x |-> x]
NaN == [nan |-> TRUE, x |-> 0]
Plus(a, b) == IF a.nan \/ b.nan THEN NaN ELSE Num(a.x + b.x)

\* A DataArray over (time, x, y): the time coordinates and, for each, the
\* values on the cells; Unbound is a local name not yet assigned
Unbound == [bound |-> FALSE, time |-> <<>>, data |-> <<>>]
Array(t, d) == [bound |-> TRUE, time |-> t, data |-> d]

\* A Dataset: the shared time index and the variables' values on it
EmptyDataset == [time |-> <<>>, vars |-> <<>>]
NoArtifact == [name |-> "", ds |-> EmptyDataset]

\* The archive: days of a month kept in the model, and the grid of a file
DaysPerMonth == 2

\* the x and y coordinates of the cells of a source file that are kept: the
\* ones at and next to the edges of the checked tiles
GridX == {0, 500, 9500, 10000, 320000, 320500, 329500, 330000}
GridY == {0, 500, 9500, 10000, 670000, 670500, 679500, 680000}

VarNo(var) == CHOOSE k \in 1..Len(climate_vars) : climate_vars[k] = var

\* the value of a variable on a day in a cell of a source file
SourceValue(var, year, month, day, c) ==
    (1000 * VarNo(var)) + (100 * ((year - FirstYear) % 10)) + (20 * month) + (5 * day)
    + (((c[1] + c[2]) \div 500) % 5)

\* the time coordinate of a day (12 months of 30 days)
TimeOf(year, month, day) == (year * 12 + (month - 1)) * 30 + day

\* xr.open_dataset(file)[var] of an archive file, read off its name
OpenDataset(file, var) ==
    LET t     == Split(file)
        date  == t[Len(t) - 2]
        year  == IntOfDigits(Slice(date, 0, 4))
        month == IntOfDigits(Slice(date, 4, 6))
    IN  [time |-> [d \in 1..DaysPerMonth |-> TimeOf(year, month, d)],
         data |-> [d \in 1..DaysPerMonth |->
                     [c \in GridX \X GridY |-> Num(SourceValue(var, year, month, d, c))]]]

\* lines 69-72 and 74-77: nc_file.where(x >= xmin & x < xmax & y >= ymin &
\* y < ymax, drop=True)
Crop(nc_file, box) ==
    LET cells == {c \in GridX \X GridY :
                    /\ c[1] >= box.xmin /\ c[1] < box.xmax
                    /\ c[2] >= box.ymin /\ c[2] < box.ymax}
    IN  Array(nc_file.time,
              [d \in 1..Len(nc_file.data) |-> [c \in cells |-> nc_file.data[d][c]]])

\* line 78: xr.concat([cell_data, df], dim='time')
Concat(a, df) == Array(a.time \o df.time, a.data \o df.data)

HasDuplicates(seq) == \E i, j \in 1..Len(seq) : i # j /\ seq[i] = seq[j]

PositionOf(seq, x) == CHOOSE k \in 1..Len(seq) : seq[k] = x

\* lines 84 and 87: os_chunk[key] = array.  The first array sets the index
\* of the dataset; a later one is aligned to it: kept as it is on the same
\* time coordinates, else reindexed (NaN where it has no value), which
\* raises ValueError when its own time coordinates repeat
SetItem(ds, key, array) ==
    IF DOMAIN ds.vars = {}
    THEN [exc |-> "", ds |-> [time |-> array.time, vars |-> (key :> array.data)]]
    ELSE IF array.time = ds.time
    THEN [exc |-> "", ds |-> [ds EXCEPT !.vars = (key :> array.data) @@ ds.vars]]
    ELSE IF HasDuplicates(array.time)
    THEN [exc |-> "ValueError", ds |-> ds]
    ELSE LET cells == IF array.data = <<>> THEN {} ELSE DOMAIN array.data[1]
             inTime(t) == \E k \in 1..Len(array.time) : array.time[k] = t
             aligned ==
               [d \in 1..Len(ds.time) |->
                  IF inTime(ds.time[d])
                  THEN array.data[PositionOf(array.time, ds.time[d])]
                  ELSE [c \in cells |-> NaN]]
         IN  [exc |-> "", ds |-> [ds EXCEPT !.vars = (key :> aligned) @@ ds.vars]]

\* line 87: os_chunk['rlds'] + os_chunk['rsds'], two variables of one dataset
MutSum(ds, a, b) ==
    Array(ds.time,
          [d \in 1..Len(ds.time) |->
             [c \in DOMAIN ds.vars[a][d] |-> Plus(ds.vars[a][d][c], ds.vars[a][d][c])]])
Sum(ds, a, b) ==
    Array(ds.time,
          [d \in 1..Len(ds.time) |->
             [c \in DOMAIN ds.vars[a][d] |-> Plus(ds.vars[a][d][c], ds.vars[b][d][c])]])

\* line 92: the name of the artifact
OutName(cell, rcp, ensemble) ==
    out_path \o cell \o "_" \o rcp \o "_" \o ensemble \o ".nc"

Fail(e) ==
    /\ pc' = "raised"
    /\ raised' = e

\* lines 38-50: the output directory, the bounding box, the empty dataset
Setup ==
    /\ pc = "setup"
    /\ out_isdir' = TRUE
    /\ LET b == osgrid2bbox([type |-> "str", val |-> os_cell], "10km")
       IN  IF b.kind = "raise"
           THEN Fail(b.exc) /\ UNCHANGED tile_bbox
           ELSE pc' = "var" /\ tile_bbox' = b /\ UNCHANGED raised
    /\ os_chunk' = EmptyDataset
    /\ var_i' = 1
    /\ UNCHANGED <<gridVars, filterVars, poolVars, os_cell, openable, file_list, file_i, cell_data, artifact>>

\* lines 54-58: the next variable and its file_list
NextVar ==
    /\ pc = "var"
    /\ var_i <= Len(climate_vars)
    /\ LET fl == filter_files(RCP, Many(years), One(climate_vars[var_i]),
                              One(PyText(ENSEMBLE)), nc_path, listing)
       IN  IF fl.kind = "raise"
           THEN Fail(fl.exc) /\ UNCHANGED file_list
           ELSE pc' = "file" /\ file_list' = fl.files /\ UNCHANGED raised
    /\ file_i' = 1
    /\ UNCHANGED <<gridVars, filterVars, poolVars, os_cell, openable, out_isdir, tile_bbox, var_i, cell_data,
                   os_chunk, artifact>>

\* lines 59-81: one file of file_list
NextFile ==
    /\ pc = "file"
    /\ file_i <= Len(file_list)
    /\ file_i' = file_i + 1
    /\ LET file == file_list[file_i]
           var  == climate_vars[var_i]
       IN  IF file \notin openable
           THEN \* FileNotFoundError: continue
                UNCHANGED <<pc, raised, cell_data>>
           ELSE IF file_i = 1
           THEN /\ cell_data' = Crop(OpenDataset(file, var), tile_bbox)
                /\ UNCHANGED <<pc, raised>>
           ELSE IF ~cell_data.bound
           THEN Fail("UnboundLocalError") /\ UNCHANGED cell_data
           ELSE /\ cell_data' = Concat(cell_data, Crop(OpenDataset(file, var), tile_bbox))
                /\ UNCHANGED <<pc, raised>>
    /\ UNCHANGED <<gridVars, filterVars, poolVars, os_cell, openable, out_isdir, tile_bbox, var_i, file_list,
                   os_chunk, artifact>>

\* the loop over file_list is over
EndFiles ==
    /\ pc = "file"
    /\ file_i > Len(file_list)
    /\ pc' = "store"
    /\ UNCHANGED <<gridVars, filterVars, poolVars, os_cell, openable, out_isdir, tile_bbox, var_i, file_list,
                   file_i, cell_data, os_chunk, raised, artifact>>

\* line 84: os_chunk[var] = cell_data
StoreVar ==
    /\ pc = "store"
    /\ IF ~cell_data.bound
       THEN Fail("UnboundLocalError") /\ UNCHANGED <<os_chunk, var_i>>
       ELSE LET r == SetItem(os_chunk, climate_vars[var_i], cell_data)
            IN  IF r.exc # ""
                THEN Fail(r.exc) /\ UNCHANGED <<os_chunk, var_i>>
                ELSE /\ os_chunk' = r.ds
                     /\ var_i' = var_i + 1
                     /\ pc' = "var"
                     /\ UNCHANGED raised
    /\ UNCHANGED <<gridVars, filterVars, poolVars, os_cell, openable, out_isdir, tile_bbox, file_list, file_i,
                   cell_data, artifact>>

\* line 87: os_chunk['rds'] = os_chunk['rlds'] + os_chunk['rsds']
Derive ==
    /\ pc = "var"
    /\ var_i > Len(climate_vars)
    /\ LET r == SetItem(os_chunk, "rds", Sum(os_chunk, "rlds", "rsds"))
       IN  IF r.exc # ""
           THEN Fail(r.exc) /\ UNCHANGED os_chunk
           ELSE os_chunk' = r.ds /\ pc' = "write" /\ UNCHANGED raised
    /\ UNCHANGED <<gridVars, filterVars, poolVars, os_cell, openable, out_isdir, tile_bbox, var_i, file_list,
                   file_i, cell_data, artifact>>

\* line 92: os_chunk.to_netcdf(...)
ToNetcdf ==
    /\ pc = "write"
    /\ artifact' = [name |-> OutName(os_cell, RCP, ENSEMBLE), ds |-> os_chunk]
    /\ pc' = "done"
    /\ UNCHANGED <<gridVars, filterVars, poolVars, os_cell, openable, out_isdir, tile_bbox, var_i, file_list,
                   file_i, cell_data, os_chunk, raised>>

RechunkIdle ==
    /\ os_cell = ""
    /\ openable = {}
    /\ out_isdir = FALSE
    /\ pc = "idle"
    /\ tile_bbox = NoCall
    /\ var_i = 0
    /\ file_list = <<>>
    /\ file_i = 0
    /\ cell_data = Unbound
    /\ os_chunk = EmptyDataset
    /\ raised = ""
    /\ artifact = NoArtifact

-----------------------------------------------------------------------------
(* rechunk_chess.py, __main__: the Parallel Orchestrator *)

\* lines 97-108
os_regions ==
    <<"SV", "SW", "SX", "SY", "SZ", "TV",
      "SR", "SS", "ST", "SU", "TQ", "TR",
      "SM", "SN", "SO", "SP", "TL", "TM",
      "SH", "SJ", "SK", "TF", "TG", "SC",
      "SD", "SE", "TA", "NW", "NX", "NY",
      "NZ", "OV", "NR", "NS", "NT", "NU",
      "NL", "NM", "NN", "NO", "NP", "NF",
      "NG", "NH", "NJ", "NK", "NA", "NB",
      "NC", "ND", "NE", "HW", "HX", "HY",
      "HZ", "HT", "HU", "HO", "HP">>

\* the region codes and the numbers per code that a checked run enumerates
\* (59 and range(100) in the program), and its worker processes (16)
MaxRegions == 3
MaxNums == 3
Procs == 2

\* line 110: [code + f'{num:02}' for code in os_regions for num in range(100)]
GridOf(codes, nums) ==
    [k \in 1..(codes * nums) |->
        os_regions[((k - 1) \div nums) + 1] \o ZeroPad(IntToStr((k - 1) % nums), 2)]

os_grid == GridOf(MaxRegions, MaxNums)

\* line 124, pool.map without chunksize: divmod(len(iterable), processes * 4),
\* rounded up
ChunkSize ==
    LET q == Len(os_grid) \div (Procs * 4)
    IN  IF Len(os_grid) % (Procs * 4) # 0 THEN q + 1 ELSE q

NChunks == (Len(os_grid) + ChunkSize - 1) \div ChunkSize

\* chunk i of os_grid (from 1): the tiles one task holds
Chunk(i) ==
    LET lo == (i - 1) * ChunkSize + 1
        hi == IF i * ChunkSize > Len(os_grid) THEN Len(os_grid) ELSE i * ChunkSize
    IN  SubSeq(os_grid, lo, hi)

NoTask == [chunk |-> 0, pos |-> 0, failed |-> FALSE]

\* a worker takes the next task off the queue
MutTakeTask(w) ==
    /\ workers[w] = NoTask
    /\ taskq # <<>>
    /\ workers' = [workers EXCEPT ![w] = [chunk |-> Head(taskq), pos |-> 1,
                                           failed |-> FALSE]]
    /\ taskq' = IF Head(taskq) = 1 /\ runs[os_grid[1]] < 2 THEN taskq ELSE Tail(taskq)
    /\ UNCHANGED <<failing, number_left, success, map_state, outdir, runs, writes>>
    /\ UNCHANGED <<gridVars, filterVars, rechunkVars, setup>>
TakeTask(w) ==
    /\ workers[w] = NoTask
    /\ taskq # <<>>
    /\ workers' = [workers EXCEPT ![w] = [chunk |-> Head(taskq), pos |-> 1,
                                           failed |-> FALSE]]
    /\ taskq' = Tail(taskq)
    /\ UNCHANGED <<failing, number_left, success, map_state, outdir, runs, writes>>
    /\ UNCHANGED <<gridVars, filterVars, rechunkVars, setup>>

\* the worker runs rechunk_chess on the next tile of its task (mapstar:
\* list(map(func, chunk))): the invocation writes its artifact, or raises,
\* which ends the task
RunTile(w) ==
    /\ workers[w].chunk # 0
    /\ ~workers[w].failed
    /\ workers[w].pos <= Len(Chunk(workers[w].chunk))
    /\ LET tile == Chunk(workers[w].chunk)[workers[w].pos]
           name == OutName(tile, RCP, ENSEMBLE)
       IN  /\ runs' = [runs EXCEPT ![tile] = @ + 1]
           /\ IF tile \in failing
              THEN /\ workers' = [workers EXCEPT ![w].failed = TRUE]
                   /\ UNCHANGED <<outdir, writes>>
              ELSE /\ workers' = [workers EXCEPT ![w].pos = @ + 1]
                   /\ outdir' = outdir \cup {name}
                   /\ writes' = IF name \in DOMAIN writes
                                THEN [writes EXCEPT ![name] = @ + 1]
                                ELSE (name :> 1) @@ writes
    /\ UNCHANGED <<failing, taskq, number_left, success, map_state>>
    /\ UNCHANGED <<gridVars, filterVars, rechunkVars, setup>>

\* the worker hands in the result of its task: MapResult._set
PutResult(w) ==
    /\ workers[w].chunk # 0
    /\ workers[w].failed \/ workers[w].pos > Len(Chunk(workers[w].chunk))
    /\ number_left' = number_left - 1
    /\ success' = (success /\ ~workers[w].failed)
    /\ workers' = [workers EXCEPT ![w] = NoTask]
    /\ UNCHANGED <<failing, taskq, map_state, outdir, runs, writes>>
    /\ UNCHANGED <<gridVars, filterVars, rechunkVars, setup>>

\* pool.map returns, or raises the first exception, once every task has a
\* result
MapEnds ==
    /\ map_state = "running"
    /\ number_left = 0
    /\ map_state' = IF success THEN "returned" ELSE "raised"
    /\ UNCHANGED <<failing, taskq, workers, number_left, success, outdir, runs, writes>>
    /\ UNCHANGED <<gridVars, filterVars, rechunkVars, setup>>

PoolIdle ==
    /\ failing = {}
    /\ taskq = <<>>
    /\ workers = <<>>
    /\ number_left = 0
    /\ success = TRUE
    /\ map_state = "idle"
    /\ outdir = {}
    /\ runs = <<>>
    /\ writes = <<>>
    /\ setup = <<>>

-----------------------------------------------------------------------------
(* The calls of osgrid2bbox that are checked *)

\* the longest run of digits after the first two is MaxTail
MaxTail == 9

\* digits that follow the first two of a reference, cut to every length
TailPatterns == {"550729501357"}
Tails == {Slice(t, 0, n) : t \in TailPatterns, n \in 0..MaxTail}

DigitStrings ==
    {""} \cup CharsOf(DigitChars)
         \cup {d1 \o d2 \o t : d1 \in CharsOf(DigitChars),
                               d2 \in CharsOf(DigitChars), t \in Tails}

\* two leading characters: every code of the table, codes that are not in it,
\* lower and mixed case
GridPrefixes ==
    RegionCodes \cup {"AA", "NI", "ZZ", "IT", "nt", "sv", "Hp", "zz", "N7"}

\* references that are not two characters and digits
OddRefs == {"", "N", "NT27X", "NT-27", "2755072950"}

GridRefs ==
    {[type |-> "str", val |-> v] :
        v \in {p \o d : p \in GridPrefixes, d \in DigitStrings} \cup OddRefs}
    \cup {[type |-> "int", val |-> "2755072950"],
          [type |-> "NoneType", val |-> "None"],
          [type |-> "list", val |-> "NT27"],
          [type |-> "float", val |-> "27.5"],
          [type |-> "bytes", val |-> "NT27"]}

CellSizes == {"10km", "100km", "1km"}

FilterIdle ==
    /\ listing = <<>>
    /\ fargs = [rcp |-> "", years |-> Many(<<>>), climate_vars |-> Many(<<>>),
                ensembles |-> Many(<<>>), path |-> ""]
    /\ filtered = NoCall

GridInit ==
    /\ gridref \in GridRefs
    /\ os_cellsize \in CellSizes
    /\ bbox = NoCall
    /\ FilterIdle
    /\ RechunkIdle
    /\ PoolIdle

CallOsgrid2bbox ==
    /\ bbox = NoCall
    /\ bbox' = osgrid2bbox(gridref, os_cellsize)
    /\ UNCHANGED <<gridref, os_cellsize, filterVars, rechunkVars, poolVars>>

GridNext == CallOsgrid2bbox

SpecGrid == GridInit /\ [][GridNext]_vars

-----------------------------------------------------------------------------
(* The calls of filter_files that are checked *)

\* the longest directory listing
MaxDir == 3

\* the names a download directory can hold: archive files of both correction
\* modes (download_chess writes either), and files that are no archive files
DirNames ==
    { ArchiveName("rcp45", 1, "tas", 2020, 1, TRUE),
      ArchiveName("rcp45", 1, "tas", 2021, 2, TRUE),
      ArchiveName("rcp45", 1, "tasmax", 2020, 1, TRUE),
      ArchiveName("rcp45", 4, "pr", 2020, 1, TRUE),
      ArchiveName("rcp85", 1, "tas", 2020, 1, TRUE),
      ArchiveName("rcp45", 15, "tas", 2020, 1, TRUE),
      ArchiveName("rcp45", 1, "tas", 2020, 1, FALSE),
      "README.txt",
      "a_b_c_d_e_f_g_h_i_j_k.nc" }

DirEntries ==
    {[name |-> n, isfile |-> TRUE] : n \in DirNames}
    \cup {[name |-> "chess-scape_rcp45_bias-corrected_01_tas", isfile |-> FALSE]}

\* the listings of at most MaxDir distinct entries, in every order
Listings ==
    UNION {{l \in [1..n -> DirEntries] : \A i, j \in 1..n : i # j => l[i] # l[j]}
           : n \in 0..MaxDir}

FilterArgs ==
    [rcp          : {"rcp45"},
     years        : {One(2020), Many(<<2020, 2021>>)},
     climate_vars : {One("tas"), Many(<<"tas", "pr">>)},
     ensembles    : {One(PyInt(1)), One(PyText("01")), Many(<<PyInt(1), PyInt(4)>>)},
     path         : {"ceda"}]

GridIdle ==
    /\ gridref = [type |-> "str", val |-> ""]
    /\ os_cellsize = ""
    /\ bbox = NoCall

FilterInit ==
    /\ listing \in Listings
    /\ fargs \in FilterArgs
    /\ filtered = NoCall
    /\ GridIdle
    /\ RechunkIdle
    /\ PoolIdle

CallFilterFiles ==
    /\ filtered = NoCall
    /\ filtered' = filter_files(fargs.rcp, fargs.years, fargs.climate_vars,
                                fargs.ensembles, fargs.path, listing)
    /\ UNCHANGED <<listing, fargs, gridVars, rechunkVars, poolVars>>

FilterNext == CallFilterFiles

SpecFilter == FilterInit /\ [][FilterNext]_vars

-----------------------------------------------------------------------------
(* The invocations of rechunk_chess that are checked *)

\* the months of 2020 the archive holds for each variable
MaxMonths == 2
\* how many listed files can be gone when they are opened
MaxMissing == 1

\* tiles of os_grid
Tiles == {"SV00", "NT27"}

\* the archive of the run's scenario and ensemble, variable by variable and
\* month by month, after a file of another scenario
RECURSIVE ArchiveOf(_)
ArchiveOf(k) ==
    IF k = 0 THEN <<ArchiveName("rcp85", 1, "tas", FirstYear, 1, TRUE)>>
    ELSE ArchiveOf(k - 1)
         \o [m \in 1..MaxMonths |->
               ArchiveName(RCP, 1, climate_vars[k], FirstYear, m, TRUE)]

Archive == ArchiveOf(Len(climate_vars))

Reverse(seq) == [k \in 1..Len(seq) |-> seq[Len(seq) + 1 - k]]

\* listdir returns the names in an order of its own
ListingOrders == {Archive, Reverse(Archive)}

PathOf(name) == nc_path \o "\\" \o name

RechunkInit ==
    /\ \E order \in ListingOrders :
          listing = [k \in 1..Len(order) |-> [name |-> order[k], isfile |-> TRUE]]
    /\ \E missing \in SUBSET {PathOf(Archive[k]) : k \in 1..Len(Archive)} :
          /\ Cardinality(missing) <= MaxMissing
          /\ openable = {PathOf(Archive[k]) : k \in 1..Len(Archive)} \ missing
    /\ os_cell \in Tiles
    /\ out_isdir = FALSE
    /\ pc = "setup"
    /\ tile_bbox = NoCall
    /\ var_i = 0
    /\ file_list = <<>>
    /\ file_i = 0
    /\ cell_data = Unbound
    /\ os_chunk = EmptyDataset
    /\ raised = ""
    /\ artifact = NoArtifact
    /\ GridIdle
    /\ fargs = [rcp |-> "", years |-> Many(<<>>), climate_vars |-> Many(<<>>),
                ensembles |-> Many(<<>>), path |-> ""]
    /\ filtered = NoCall
    /\ PoolIdle

RechunkNext ==
    \/ Setup
    \/ NextVar
    \/ NextFile
    \/ EndFiles
    \/ StoreVar
    \/ Derive
    \/ ToNetcdf

SpecRechunk == RechunkInit /\ [][RechunkNext]_vars

-----------------------------------------------------------------------------
(* The runs of the pool that are checked *)

\* how many tiles of a run raise
MaxFailing == 1

TileSet == {os_grid[k] : k \in 1..Len(os_grid)}

PoolInit ==
    /\ failing \in {f \in SUBSET TileSet : Cardinality(f) <= MaxFailing}
    /\ taskq = [i \in 1..NChunks |-> i]
    /\ workers = [w \in 1..Procs |-> NoTask]
    /\ number_left = NChunks
    /\ success = TRUE
    /\ map_state = "running"
    /\ outdir = {}
    /\ runs = [t \in TileSet |-> 0]
    /\ writes = <<>>
    /\ setup = <<>>
    /\ GridIdle
    /\ fargs = [rcp |-> "", years |-> Many(<<>>), climate_vars |-> Many(<<>>),
                ensembles |-> Many(<<>>), path |-> ""]
    /\ filtered = NoCall
    /\ listing = <<>>
    /\ RechunkIdle

PoolNext ==
    \/ \E w \in 1..Procs : TakeTask(w)
    \/ \E w \in 1..Procs : RunTile(w)
    \/ \E w \in 1..Procs : PutResult(w)
    \/ MapEnds

SpecPool == PoolInit /\ [][PoolNext]_vars

-----------------------------------------------------------------------------
(* The runs of the pool with the head of rechunk_chess step by step *)

AtIsDir == [at |-> "isdir", exc |-> ""]

\* the tile worker w is at
TileOf(w) == Chunk(workers[w].chunk)[workers[w].pos]

InTile(w) ==
    /\ workers[w].chunk # 0
    /\ ~workers[w].failed
    /\ workers[w].pos <= Len(Chunk(workers[w].chunk))

\* line 40: if not os.path.isdir(out_path)
TileIsDir(w) ==
    /\ InTile(w)
    /\ setup[w].at = "isdir"
    /\ setup' = [setup EXCEPT ![w] = [at  |-> IF out_isdir THEN "body" ELSE "mkdir",
                                      exc |-> ""]]
    /\ runs' = [runs EXCEPT ![TileOf(w)] = @ + 1]
    /\ UNCHANGED <<failing, taskq, workers, number_left, success, map_state, outdir, writes>>
    /\ UNCHANGED <<gridVars, filterVars, rechunkVars>>

\* line 41: os.mkdir(out_path), FileExistsError when the directory is there
TileMkdir(w) ==
    /\ InTile(w)
    /\ setup[w].at = "mkdir"
    /\ IF out_isdir
       THEN /\ setup' = [setup EXCEPT ![w] = [at |-> "isdir", exc |-> "FileExistsError"]]
            /\ workers' = [workers EXCEPT ![w].failed = TRUE]
            /\ UNCHANGED out_isdir
       ELSE /\ out_isdir' = TRUE
            /\ setup' = [setup EXCEPT ![w] = [at |-> "body", exc |-> ""]]
            /\ UNCHANGED workers
    /\ UNCHANGED <<failing, taskq, number_left, success, map_state, outdir, runs, writes>>
    /\ UNCHANGED <<gridVars, filterVars, os_cell, openable, pc, tile_bbox, var_i,
                   file_list, file_i, cell_data, os_chunk, raised, artifact>>

\* lines 43-92: the rest of the invocation, which writes the artifact
TileBody(w) ==
    /\ InTile(w)
    /\ setup[w].at = "body"
    /\ setup' = [setup EXCEPT ![w] = AtIsDir]
    /\ LET name == OutName(TileOf(w), RCP, ENSEMBLE)
       IN  /\ workers' = [workers EXCEPT ![w].pos = @ + 1]
           /\ outdir' = outdir \cup {name}
           /\ writes' = IF name \in DOMAIN writes
                        THEN [writes EXCEPT ![name] = @ + 1]
                        ELSE (name :> 1) @@ writes
    /\ UNCHANGED <<failing, taskq, number_left, success, map_state, runs>>
    /\ UNCHANGED <<gridVars, filterVars, rechunkVars>>

\* the output directory is absent when the first workers start
SetupInit ==
    /\ failing = {}
    /\ taskq = [i \in 1..NChunks |-> i]
    /\ workers = [w \in 1..Procs |-> NoTask]
    /\ number_left = NChunks
    /\ success = TRUE
    /\ map_state = "running"
    /\ outdir = {}
    /\ runs = [t \in TileSet |-> 0]
    /\ writes = <<>>
    /\ setup = [w \in 1..Procs |-> AtIsDir]
    /\ GridIdle
    /\ FilterIdle
    /\ RechunkIdle

SetupNext ==
    \/ \E w \in 1..Procs : TakeTask(w)
    \/ \E w \in 1..Procs : TileIsDir(w)
    \/ \E w \in 1..Procs : TileMkdir(w)
    \/ \E w \in 1..Procs : TileBody(w)
    \/ \E w \in 1..Procs : PutResult(w)
    \/ MapEnds

SpecSetup == SetupInit /\ [][SetupNext]_vars

-----------------------------------------------------------------------------
(* Claims about osgrid2bbox *)

Called == bbox # NoCall

IsStr == gridref.type = "str"

\* a region code of the table followed by 2, 4, 6, 8 or 10 digits
Ref10km(v) ==
    /\ Len(v) >= 2
    /\ Slice(v, 0, 2) \in {regions[r][c] : r \in 1..NRows, c \in 1..NCols}
    /\ (Len(v) - 2) \in {2, 4, 6, 8, 10}
    /\ AllDigits(Slice(v, 2, Len(v)))

DigitAt(v, k) == IndexIn(DigitChars, CharAt(v, k)) - 1

\* C1: for a region code of the table followed by 2, 4, 6, 8 or 10 digits,
\* osgrid2bbox(ref, '10km') returns a 10000 x 10000 box whose corner is the
\* region's offset plus 10000 times the first digit (x) and the second digit
\* (y); it is the box of the reference cut to its first 2 digits, and
\* 'NT2755072950' gives 320000, 330000, 670000, 680000.
C1_Box10km ==
    (Called /\ IsStr /\ os_cellsize = "10km" /\ Ref10km(gridref.val)) =>
        LET v   == gridref.val
            off == offset_map[Slice(v, 0, 2)]
        IN  /\ bbox.kind = "return"
            /\ bbox.xmax - bbox.xmin = 10000
            /\ bbox.ymax - bbox.ymin = 10000
            /\ bbox.xmin = off[1] + 10000 * DigitAt(v, 3)
            /\ bbox.ymin = off[2] + 10000 * DigitAt(v, 4)
            /\ bbox = osgrid2bbox([type |-> "str", val |-> Slice(v, 0, 4)], "10km")
            /\ (v = "NT2755072950" => bbox = Box(320000, 330000, 670000, 680000))

C1_Witness ==
    /\ Called /\ IsStr /\ os_cellsize = "10km"
    /\ gridref.val = "NT2755072950"
    /\ bbox.kind = "return"

\* C5 (as claimed): for '10km' and '100km', osgrid2bbox raises BNGError and
\* nothing else when gridref is not a string, when it is two letters followed
\* by an odd number of digits, or when its two leading letters are not a
\* region code of the table.
TwoLetters(v) ==
    /\ Len(v) >= 2
    /\ \A k \in 1..2 : CharAt(v, k) \in CharsOf(UpperAlpha) \cup CharsOf(LowerAlpha)

OddDigits(v) ==
    /\ TwoLetters(v)
    /\ (Len(v) - 2) % 2 = 1
    /\ AllDigits(Slice(v, 2, Len(v)))

UnmappedLetters(v) ==
    /\ TwoLetters(v)
    /\ StrUpper(Slice(v, 0, 2)) \notin {regions[r][c] : r \in 1..NRows, c \in 1..NCols}

C5_RaisesBNGError ==
    (/\ Called
     /\ os_cellsize \in {"10km", "100km"}
     /\ \/ ~IsStr
        \/ IsStr /\ OddDigits(gridref.val)
        \/ IsStr /\ UnmappedLetters(gridref.val))
    => bbox = Raise("BNGError")

\* C8: for every region code of the table, osgrid2bbox(code, '100km') is a
\* 100000 x 100000 box at 100000 * (column of the code from the left, from
\* 0), 100000 * (row of the code from the bottom, from 0); 'SV' is at (0, 0),
\* 'NT' at (300000, 600000), and no other code has the same corner.
C8_Box100km ==
    (Called /\ IsStr /\ os_cellsize = "100km"
       /\ gridref.val \in {regions[r][c] : r \in 1..NRows, c \in 1..NCols}) =>
        /\ bbox.kind = "return"
        /\ bbox.xmax - bbox.xmin = 100000
        /\ bbox.ymax - bbox.ymin = 100000
        /\ \E r \in 1..13, c \in 1..7 :
              /\ regions[r][c] = gridref.val
              /\ bbox.xmin = 100000 * (c - 1)
              /\ bbox.ymin = 100000 * (13 - r)
        /\ (gridref.val = "SV" => bbox.xmin = 0 /\ bbox.ymin = 0)
        /\ (gridref.val = "NT" => bbox.xmin = 300000 /\ bbox.ymin = 600000)
        /\ \A r \in 1..13, c \in 1..7 :
              regions[r][c] # gridref.val =>
                 LET other == osgrid2bbox([type |-> "str", val |-> regions[r][c]],
                                          "100km")
                 IN  <<other.xmin, other.ymin>> # <<bbox.xmin, bbox.ymin>>

C8_Witness ==
    /\ Called /\ IsStr /\ os_cellsize = "100km"
    /\ gridref.val = "NT"
    /\ bbox = Box(300000, 400000, 600000, 700000)

-----------------------------------------------------------------------------
(* Claims about filter_files *)

\* the archive layout of download_chess, in either correction mode
IsCorrectedName(t) ==
    /\ Len(t) = 13
    /\ t[1] = "chess" /\ t[2] = "scape" /\ t[4] = "bias" /\ t[5] = "corrected"
    /\ t[13] = "nc"

IsUncorrectedName(t) ==
    /\ Len(t) = 11
    /\ t[1] = "chess" /\ t[2] = "scape" /\ t[11] = "nc"

\* the scenario, ensemble, variable and date-range tokens of an archive name
Fields(t) ==
    IF IsCorrectedName(t)
    THEN [scenario |-> t[3], ensemble |-> t[6], variable |-> t[7], date |-> t[11]]
    ELSE [scenario |-> t[3], ensemble |-> t[4], variable |-> t[5], date |-> t[9]]

Requested(name) ==
    LET t == Split(name)
    IN  /\ IsCorrectedName(t) \/ IsUncorrectedName(t)
        /\ \E y \in 1..Len(AsList(fargs.years)),
              v \in 1..Len(AsList(fargs.climate_vars)),
              e \in 1..Len(AsList(fargs.ensembles)) :
                /\ Contains(fargs.rcp, Fields(t).scenario)
                /\ Contains(PyStr(AsList(fargs.ensembles)[e]), Fields(t).ensemble)
                /\ AsList(fargs.climate_vars)[v] = Fields(t).variable
                /\ Slice(Fields(t).date, 0, 4) = IntToStr(AsList(fargs.years)[y])

RegularFilesOnly == \A i \in 1..Len(listing) : listing[i].isfile

ReturnedSet == {filtered.files[i] : i \in 1..Len(filtered.files)}

RequestedSet ==
    {fargs.path \o "\\" \o listing[i].name :
        i \in {k \in 1..Len(listing) : Requested(listing[k].name)}}

\* C2 (as claimed): on any directory of regular files, archive files of
\* either correction mode and files that are no archive files, filter_files
\* returns without raising, and returns exactly the files whose scenario
\* token contains rcp, whose ensemble token contains str(ensemble), whose
\* variable token equals the variable and whose date token starts with the
\* year, for some requested (year, variable, ensemble).
C2_FilterExact ==
    (filtered # NoCall /\ RegularFilesOnly) =>
        /\ filtered.kind = "return"
        /\ ReturnedSet = RequestedSet

\* C2, on the directories the code handles: when every file is a
\* bias-corrected archive file, filter_files returns exactly the requested
\* files.
C2_CorrectedOnly ==
    (/\ filtered # NoCall
     /\ RegularFilesOnly
     /\ \A i \in 1..Len(listing) : IsCorrectedName(Split(listing[i].name)))
    => /\ filtered.kind = "return"
       /\ ReturnedSet = RequestedSet

-----------------------------------------------------------------------------
(* Claims about rechunk_chess *)

ArchivePaths == {PathOf(Archive[k]) : k \in 1..Len(Archive)}

\* the cropped slices of the files of a list that can be opened, one after
\* the other along time
RECURSIVE SlicesOf(_, _, _)
SlicesOf(files, var, box) ==
    IF files = <<>> THEN Array(<<>>, <<>>)
    ELSE LET rest == SlicesOf(Tail(files), var, box)
         IN  IF Head(files) \in openable
             THEN Concat(Crop(OpenDataset(Head(files), var), box), rest)
             ELSE rest

\* C3 (as claimed): an absent source file is not fatal, wherever it is in
\* the file list of whichever variable: the invocation does not raise.
C3_AbsentFileAbsorbed ==
    (Cardinality(ArchivePaths \ openable) = 1) => (pc # "raised" /\ raised = "")

\* C4 (as claimed): when a variable is stored (line 84), its series is the
\* concatenation, in file_list order, of the cropped slices of the files of
\* that variable that could be opened, and nothing else.
C4_SeriesAtStore ==
    (pc = "store" /\ cell_data.bound) =>
        cell_data = SlicesOf(file_list, climate_vars[var_i], tile_bbox)

Increasing(seq) == \A i, j \in 1..Len(seq) : i < j => seq[i] < seq[j]

\* C9 (as claimed): the time axis of the series assembled for a variable is
\* increasing, in whatever order listdir returns the files.
C9_TimeMonotone ==
    (pc = "store" /\ cell_data.bound) => Increasing(cell_data.time)

\* every (time, x, y) of the artifact has rds = rlds + rsds
ArtifactSum ==
    pc = "done" =>
        /\ DOMAIN artifact.ds.vars =
              {climate_vars[k] : k \in 1..Len(climate_vars)} \cup {"rds"}
        /\ \A d \in 1..Len(artifact.ds.time) :
              \A c \in DOMAIN artifact.ds.vars["rds"][d] :
                 artifact.ds.vars["rds"][d][c] =
                    Plus(artifact.ds.vars["rlds"][d][c], artifact.ds.vars["rsds"][d][c])

\* the step that computes rds changes no stored variable, and the artifact
\* is the dataset so computed
DerivePreserves ==
    /\ (pc = "var" /\ pc' = "write") =>
          /\ os_chunk'.time = os_chunk.time
          /\ \A v \in DOMAIN os_chunk.vars :
                v \in DOMAIN os_chunk'.vars /\ os_chunk'.vars[v] = os_chunk.vars[v]
    /\ (pc = "write" /\ pc' = "done") => artifact'.ds = os_chunk

\* C10: in every artifact written, rds = rlds + rsds at every (time, x, y),
\* and computing rds leaves rlds, rsds and every other variable as stored.
C10_DerivedRadiation == [](ArtifactSum) /\ [][DerivePreserves]_vars

C10_Witness ==
    /\ pc = "done"
    /\ openable = ArchivePaths
    /\ Len(artifact.ds.time) = MaxMonths * DaysPerMonth
    /\ \E d \in 1..Len(artifact.ds.time) :
          \E c \in DOMAIN artifact.ds.vars["rds"][d] :
             /\ ~artifact.ds.vars["rds"][d][c].nan
             /\ artifact.ds.vars["rds"][d][c].x > artifact.ds.vars["rlds"][d][c].x

-----------------------------------------------------------------------------
(* Claims about the pool *)

MapOver == map_state \in {"returned", "raised"}

\* C6 (as claimed): a tile whose invocation raises affects no other tile:
\* when pool.map ends, every tile that did not itself raise has run to
\* completion and written its artifact.
C6_OtherTilesComplete ==
    MapOver => \A t \in TileSet \ failing : OutName(t, RCP, ENSEMBLE) \in outdir

Distinct(seq) == \A i, j \in 1..Len(seq) : i # j => seq[i] # seq[j]

CodesDistinct == Distinct(os_regions) /\ Distinct(os_grid)

NamesDistinct ==
    Distinct([k \in 1..Len(os_grid) |-> OutName(os_grid[k], RCP, ENSEMBLE)])

\* C7: os_regions and os_grid repeat no code, distinct tiles have distinct
\* output names, no tile is handed to two workers or started twice, no
\* output name is written twice, and when every tile has completed the
\* output directory holds exactly one artifact per tile of os_grid.
C7_UniqueArtifacts ==
    (map_state # "idle") =>
        /\ CodesDistinct
        /\ NamesDistinct
        /\ \A t \in TileSet : runs[t] <= 1
        /\ \A w1, w2 \in 1..Procs :
              (w1 # w2 /\ workers[w1].chunk # 0) => workers[w1].chunk # workers[w2].chunk
        /\ \A n \in DOMAIN writes : writes[n] = 1
        /\ (map_state = "returned") =>
              /\ outdir = {OutName(t, RCP, ENSEMBLE) : t \in TileSet}
              /\ Cardinality(outdir) = Len(os_grid)
              /\ \A t \in TileSet : runs[t] = 1

C7_Witness ==
    /\ map_state = "returned"
    /\ failing = {}
    /\ Cardinality(outdir) = Len(os_grid)
    /\ Len(os_grid) > Procs

-----------------------------------------------------------------------------
(* Claims about the point a reference designates *)

\* the point a reference of 2n digits designates: the first n digits are
\* the easting and the last n the northing, each in units of 10^(5-n) metres
\* from the region's offset
PointOf(v) ==
    LET digits == Slice(v, 2, Len(v))
        n      == Len(digits) \div 2
        off    == offset_map[Slice(v, 0, 2)]
    IN  <<off[1] + IntOfDigits(Slice(digits, 0, n)) * Pow(10, 5 - n),
          off[2] + IntOfDigits(Slice(digits, n, 2 * n)) * Pow(10, 5 - n)>>

-----------------------------------------------------------------------------
(* Claims about the creation of the output directory *)

\* C12 (as claimed): with the output directory absent at the start of the
\* run, under every interleaving of the workers no invocation raises at
\* lines 40-41 because another worker created the directory between its
\* isdir and its mkdir, and when pool.map ends the directory exists.
C12_SetupRaceFree ==
    /\ \A w \in DOMAIN setup : setup[w].exc = ""
    /\ MapOver => out_isdir

=============================================================================
